---- MODULE Spec2Model ----
(***************************************************************************)
(* The Message Relay of the chat server (POST /api/v1/chat), the           *)
(* Conversation Ledger it keeps, and the language-model provider it calls. *)
(*                                                                         *)
(* A request is handled in three run-to-completion steps of the event      *)
(* loop: the handler up to the await of the provider call, the service's   *)
(* continuation once the provider promise settles, and the controller's    *)
(* continuation once the service promise settles.  The provider is the     *)
(* environment: it settles each call with any outcome.                     *)
(*                                                                         *)
(* Strings that matter by their length (prompts) are run-length encoded:   *)
(* a sequence of runs [ch, n], adjacent runs of different characters.      *)
(* Strings that matter by their characters (conversation ids) are tuples   *)
(* of one-character strings.                                               *)
(***************************************************************************)
EXTENDS Integers, Sequences, FiniteSets, TLC

\* ------------------------------------------------------------------ bounds

\* Connections that can have a chat request in flight at the same time.
NumReq == 2
\* Provider invocations over one run (the provider numbers its responses).
MaxCalls == 3
\* Relay requests one Chat Surface makes over one run.
MaxPosts == 3
\* Newlines the user inserts into one prompt with shift+Enter.
MaxNewlines == 1
\* Direct calls of conversationRepository.set over one run of the repository.
MaxSets == 3

\* ------------------------------------------------------- program constants

\* .min(1, 'Prompt is required')
PromptMin == 1
\* .max(1000, 'Prompt must be less than 1000 characters')
PromptMax == 1000

\* ------------------------------------------------------------- JS values

\* The JavaScript value undefined (a missing property, an absent Map entry).
Undefined == "undefined"

JsUndefined == [t |-> "undefined"]
JsString(v) == [t |-> "string", v |-> v]

\* --------------------------------------------------------------- prompts

IsWhitespace(ch) == ch \in {" ", "\t", "\n"}
Run(ch, n) == [ch |-> ch, n |-> n]

\* The prompts of the request bodies: empty, whitespace only, short, padded
\* with whitespace, and at and over the limit with and without padding
PromptStrings ==
    { <<>>,
      <<Run(" ", 3)>>,
      <<Run("A", 1)>>,
      <<Run(" ", 3), Run("A", 1), Run(" ", 3)>>,
      <<Run("A", PromptMax), Run(" ", 1)>>,
      <<Run("A", PromptMax + 1)>>,
      <<Run(" ", 1), Run("A", PromptMax + 1)>> }

RECURSIVE StrLen(_)
StrLen(s) == IF s = <<>> THEN 0 ELSE Head(s).n + StrLen(Tail(s))

RECURSIVE TrimStart(_)
TrimStart(s) ==
    IF s = <<>> THEN <<>>
    ELSE IF IsWhitespace(Head(s).ch) THEN TrimStart(Tail(s))
    ELSE s

RECURSIVE TrimEnd(_)
TrimEnd(s) ==
    IF s = <<>> THEN <<>>
    ELSE IF IsWhitespace(s[Len(s)].ch) THEN TrimEnd(SubSeq(s, 1, Len(s) - 1))
    ELSE s

\* String.prototype.trim, as z.string().trim() applies it
Trim(s) == TrimEnd(TrimStart(s))


\* ------------------------------------------------------ conversation ids

HexDigits ==
    {"0", "1", "2", "3", "4", "5", "6", "7", "8", "9",
     "a", "b", "c", "d", "e", "f", "A", "B", "C", "D", "E", "F"}
DashAt == {9, 14, 19, 24}
UuidLen == 36
VersionAt == 15
VariantAt == 20

\* '123e4567-e89b-12d3-a456-426614174000', the id of the test suites
Uuid1 ==
    <<"1", "2", "3", "e", "4", "5", "6", "7", "-", "e", "8", "9", "b", "-", "1", "2", "d", "3", "-", "a", "4", "5", "6", "-", "4", "2", "6", "6", "1", "4", "1", "7", "4", "0", "0", "0">>
\* a second conversation
Uuid2 ==
    <<"1", "2", "3", "e", "4", "5", "6", "7", "-", "e", "8", "9", "b", "-", "1", "2", "d", "3", "-", "a", "4", "5", "6", "-", "4", "2", "6", "6", "1", "4", "1", "7", "4", "0", "0", "1">>
\* 'not-a-uuid'
NotAUuid == <<"n", "o", "t", "-", "a", "-", "u", "u", "i", "d">>
\* the shape of a UUID with a character that is no hex digit
NonHexUuid ==
    <<"1", "2", "3", "e", "4", "5", "6", "7", "-", "e", "8", "9", "b", "-", "1", "2", "d", "3", "-", "a", "4", "5", "6", "-", "4", "2", "6", "6", "1", "4", "1", "7", "4", "0", "0", "g">>

\* z.uuid(): 8-4-4-4-12 hex digits, version 1-8, variant 8, 9, a or b;
\* or the nil or the max UUID
IsUUID(s) ==
    /\ Len(s) = UuidLen
    /\ \A i \in DashAt : s[i] = "-"
    /\ \/ /\ \A i \in (1..UuidLen) \ DashAt : s[i] \in HexDigits
          /\ s[VersionAt] \in {"1", "2", "3", "4", "5", "6", "7", "8"}
          /\ s[VariantAt] \in {"8", "9", "a", "b", "A", "B"}
       \/ \A i \in (1..UuidLen) \ DashAt : s[i] = "0"
       \/ \A i \in (1..UuidLen) \ DashAt : s[i] = "f"

\* --------------------------------------------------------------- chatSchema

InvalidType == "Invalid input: expected string"
PromptRequired == "Prompt is required"
PromptTooLong == "Prompt must be less than 1000 characters"
InvalidUUID == "Invalid UUID"

\* The schema without its .trim()
ParsedPromptUntrimmed(p) == p.v

\* prompt: z.string().trim().min(1, ...).max(1000, ...): the value the checks
\* see, and the parse returns, is the trimmed one
ParsedPrompt(p) == Trim(p.v)

\* A prompt that only has to be a string
PromptIssuesOfTypeOnly(p) == IF p.t # "string" THEN {InvalidType} ELSE {}

PromptIssues(p) ==
    IF p.t # "string" THEN {InvalidType}
    ELSE (IF StrLen(ParsedPrompt(p)) < PromptMin THEN {PromptRequired} ELSE {})
         \cup (IF StrLen(ParsedPrompt(p)) > PromptMax THEN {PromptTooLong} ELSE {})

\* A conversationId that only has to be a string
ConversationIdIssuesOfTypeOnly(c) == IF c.t # "string" THEN {InvalidType} ELSE {}

\* conversationId: z.uuid()
ConversationIdIssues(c) ==
    IF c.t # "string" THEN {InvalidType}
    ELSE IF ~IsUUID(c.v) THEN {InvalidUUID}
    ELSE {}

\* chatSchema.safeParse(req.body)
SafeParse(body) ==
    LET pi == PromptIssues(body.prompt)
        ci == ConversationIdIssues(body.conversationId)
    IN  IF pi = {} /\ ci = {}
        THEN [success |-> TRUE,
              data |-> [prompt |-> ParsedPrompt(body.prompt),
                        conversationId |-> body.conversationId.v]]
        ELSE [success |-> FALSE,
              error |-> [prompt |-> pi, conversationId |-> ci]]

\* z.treeifyError(parseResult.error): the issues by property, only the
\* properties that have any
TreeifyError(error) ==
    [errors |-> {},
     properties |-> [f \in { g \in {"prompt", "conversationId"} : error[g] # {} }
                        |-> error[f]]]


\* ---------------------------------------------------------- request bodies

PromptValues == {JsUndefined} \cup { JsString(s) : s \in PromptStrings }
ConversationIdValues ==
    {JsUndefined, JsString(Uuid1), JsString(Uuid2), JsString(NotAUuid),
     JsString(NonHexUuid)}
GoodPrompt == JsString(<<Run("A", 1)>>)

\* The request bodies: every prompt with the first conversation id, a good
\* prompt with every conversation id, and a body with two bad properties
Bodies ==
    { [prompt |-> p, conversationId |-> JsString(Uuid1)] : p \in PromptValues }
    \cup { [prompt |-> GoodPrompt, conversationId |-> c] :
              c \in ConversationIdValues }
    \cup { [prompt |-> JsString(<<>>), conversationId |-> JsString(NotAUuid)] }

\* ------------------------------------------------------ conversation ledger

\* const conversations = new Map<string, string>(): a function on the keys
\* that were set
EmptyMap == [k \in {} |-> Undefined]

\* A get that answers an absent entry with the empty string
GetAbsentAsEmpty(m, conversationId) ==
    IF conversationId \in DOMAIN m THEN m[conversationId] ELSE ""

\* conversationRepository.get
Get(m, conversationId) ==
    IF conversationId \in DOMAIN m THEN m[conversationId] ELSE Undefined

\* A set that keeps the value of a key that has one
SetIfAbsent(m, conversationId, responseId) ==
    [k \in DOMAIN m \cup {conversationId} |->
        IF k \in DOMAIN m THEN m[k] ELSE responseId]

\* A set that keeps the entry it writes and no other
SetAlone(m, conversationId, responseId) ==
    [k \in {conversationId} |-> responseId]

\* conversationRepository.set
Set(m, conversationId, responseId) ==
    [k \in DOMAIN m \cup {conversationId} |->
        IF k = conversationId THEN responseId ELSE m[k]]

\* ------------------------------------------------------------------- state

VARIABLES
    conversations,  \* the Map of the conversation repository
    req,            \* per connection: the chat request it carries
    jobQueue,       \* requests whose service promise settled, in order: the
                    \* controller continuations the event loop will run
    issued,         \* provider invocations so far
    lastSuccess,    \* per conversation id: the id of the response of the
                    \* provider call that resolved last (history)
    health          \* the answer of the last health check, and what the
                    \* server had done when it was made (history)

\* The Chat Surface: one ChatBot component with its ChatInput
VARIABLES
    chatBot,    \* the state of ChatBot: conversationId (the current of the
                \* useRef), messages, isAssistantTyping and error
    form,       \* useForm of ChatInput: the value of the prompt field and
                \* the formState
    posts       \* the axios.post calls made so far, in order

serverVars == <<conversations, req, jobQueue, issued, lastSuccess>>
\* The conversation repository called on its own, as its test suite does
VARIABLES
    repo        \* the last direct call of the repository with its result,
                \* and per id the values that were set, in order (history)

surfaceVars == <<chatBot, form, posts>>
vars == <<conversations, req, jobQueue, issued, lastSuccess, health,
          chatBot, form, posts, repo>>

Requests == 1..NumReq

NoBody == [prompt |-> JsUndefined, conversationId |-> JsUndefined]
NoCall ==
    [made |-> FALSE, input |-> <<>>, conversationId |-> <<>>,
     previous_response_id |-> Undefined, serial |-> 0]
Pending == [kind |-> "pending"]
NoResponse == [status |-> 0, body |-> [none |-> TRUE]]

IdleRequest ==
    [pc |-> "idle", body |-> NoBody, call |-> NoCall, provider |-> Pending,
     service |-> Pending, writes |-> <<>>, res |-> NoResponse]

Null == "null"

\* ChatBot before its first render
NoChatBot ==
    [conversationId |-> Undefined, messages |-> <<>>,
     isAssistantTyping |-> FALSE, error |-> Null]

\* useForm({ defaultValues: { prompt: '' } })
DefaultForm ==
    [prompt |-> <<>>, isSubmitting |-> FALSE, isSubmitted |-> FALSE, errors |-> {}]

\* The ids and the response ids of the direct calls
RepositoryKeys == {Uuid1, Uuid2, NotAUuid}
RepositoryValues == {"resp_1", "resp_2"}

NoRepositoryCall ==
    [op |-> "none", id |-> <<>>, result |-> Undefined,
     sets |-> [k \in RepositoryKeys |-> <<>>]]

NoHealthCheck == [res |-> NoResponse, failures |-> {}, issued |-> 0]

Init ==
    /\ conversations = EmptyMap
    /\ req = [r \in Requests |-> IdleRequest]
    /\ jobQueue = <<>>
    /\ issued = 0
    /\ lastSuccess = EmptyMap
    /\ health = NoHealthCheck
    /\ chatBot = NoChatBot
    /\ form = DefaultForm
    /\ posts = <<>>
    /\ repo = NoRepositoryCall

\* ---------------------------------------------------------------- provider

ResponseId(serial) == "resp_" \o ToString(serial)
OutputText(serial) == "text_" \o ToString(serial)

ProviderErrors == {"Error: OpenAI API Error", "TimeoutError: Request timeout",
                   "Unexpected string error"}
TypeErrorOfNull == "TypeError: null is not an object"

\* What openaiClient.responses.create can settle with: a response, with or
\* without its id and its output_text, null, or a rejection
ProviderOutcomes(serial) ==
    { [kind |-> "resolved", id |-> ResponseId(serial),
                           output_text |-> OutputText(serial)],
      [kind |-> "resolved", id |-> ResponseId(serial), output_text |-> Undefined],
      [kind |-> "resolved", id |-> Undefined, output_text |-> OutputText(serial)] }
    \cup {[kind |-> "null"]}
    \cup { [kind |-> "rejected", error |-> e] : e \in ProviderErrors }

\* --------------------------------------------------------------- responses

GenerationFailed == "Failed to generate a response"

\* A validation failure answered as an unprocessable entity
ValidationResponseUnprocessable(parseResult) ==
    [status |-> 422, body |-> TreeifyError(parseResult.error)]

\* res.status(400).json(z.treeifyError(parseResult.error))
ValidationResponse(parseResult) ==
    [status |-> 400, body |-> TreeifyError(parseResult.error)]

\* The controller answering with the wrong property of the service's result
MessageResponseOfId(response) ==
    [status |-> 200, body |-> [message |-> response.id]]

\* res.json({ message: response.message })
MessageResponse(response) ==
    [status |-> 200, body |-> [message |-> response.message]]

\* A catch block that reports the error it caught
ErrorResponseLeaking(error) ==
    [status |-> 500, body |-> [error |-> error]]

\* catch (error) { res.status(500).json({ error: 'Failed to generate a response' }) }
ErrorResponse(error) ==
    [status |-> 500, body |-> [error |-> GenerationFailed]]

\* A health route that answers by the state of the chat route: unavailable
\* once a chat request has failed
HealthResponseDegraded(failures) ==
    IF failures = {}
    THEN [status |-> 200, body |-> [status |-> "ok"]]
    ELSE [status |-> 503, body |-> [status |-> "error"]]

\* res.json({ status: 'ok' })
HealthResponse(failures) == [status |-> 200, body |-> [status |-> "ok"]]

\* ------------------------------------------------------------ chat service

\* const { prompt, conversationId } = req.body
ControllerPrompt(body, parseResult) == body.prompt.v

\* A relay that keeps one conversation for all its clients
ControllerConversationIdShared(body, parseResult) == Uuid1

ControllerConversationId(body, parseResult) == body.conversationId.v

\* The service never continuing a conversation
PreviousResponseIdAbsent(m, conversationId) == Undefined

\* previous_response_id: conversationRepository.get(conversationId)
PreviousResponseId(m, conversationId) == Get(m, conversationId)

\* A call that continues from the response of the call made before it,
\* answered or not
CreateCallAfterLatest(m, prompt, conversationId, serial) ==
    [made |-> TRUE, input |-> prompt, conversationId |-> conversationId,
     previous_response_id |-> IF serial = 1 THEN Undefined
                              ELSE ResponseId(serial - 1),
     serial |-> serial]

\* openaiClient.responses.create({ ..., input: prompt, previous_response_id })
CreateCall(m, prompt, conversationId, serial) ==
    [made |-> TRUE, input |-> prompt, conversationId |-> conversationId,
     previous_response_id |-> PreviousResponseId(m, conversationId),
     serial |-> serial]

\* A service that checks the response and rejects one without id or
\* output_text
ServiceResultStrict(outcome) ==
    IF outcome.kind = "rejected"
    THEN [kind |-> "rejected", error |-> outcome.error]
    ELSE IF outcome.kind = "null"
    THEN [kind |-> "rejected", error |-> TypeErrorOfNull]
    ELSE IF outcome.id = Undefined \/ outcome.output_text = Undefined
    THEN [kind |-> "rejected", error |-> "Error: malformed response"]
    ELSE [kind |-> "resolved", id |-> outcome.id, message |-> outcome.output_text]

\* A service that answers a missing output_text with a text of its own
ServiceResultDefaultText(outcome) ==
    IF outcome.kind = "resolved"
    THEN [kind |-> "resolved", id |-> outcome.id,
          message |-> IF outcome.output_text = Undefined
                      THEN "" ELSE outcome.output_text]
    ELSE IF outcome.kind = "null"
    THEN [kind |-> "rejected", error |-> TypeErrorOfNull]
    ELSE [kind |-> "rejected", error |-> outcome.error]

\* What chatService.sendMessage settles with, given how the provider settled
ServiceResult(outcome) ==
    IF outcome.kind = "resolved"
    THEN [kind |-> "resolved", id |-> outcome.id, message |-> outcome.output_text]
    ELSE IF outcome.kind = "null"
    THEN [kind |-> "rejected", error |-> TypeErrorOfNull]
    ELSE [kind |-> "rejected", error |-> outcome.error]

\* A service that writes the ledger before it knows the response
ServiceWritesUnconfirmed(outcome) ==
    IF outcome.kind = "resolved" THEN <<outcome.id>> ELSE <<Undefined>>

\* conversationRepository.set(conversationId, response.id) of the service:
\* after the await, so only when the provider resolved with a response
ServiceWrites(outcome) ==
    IF outcome.kind = "resolved" THEN <<outcome.id>> ELSE <<>>

\* A controller that leaves the ledger to the service
ControllerWritesNothing(service) == <<>>

\* A controller that writes the ledger outside its try block
ControllerWritesAlways(service) ==
    IF service.kind = "resolved" THEN <<service.id>> ELSE <<Undefined>>

\* conversationRepository.set(conversationId, response.id) of the controller:
\* after the await of the service, so only when the service resolved
ControllerWrites(service) ==
    IF service.kind = "resolved" THEN <<service.id>> ELSE <<>>

\* Writes that do not replace the entry of a conversation that has one
SetAllFirstWins(m, conversationId, ids) ==
    IF ids = <<>> \/ conversationId \in DOMAIN m THEN m
    ELSE Set(m, conversationId, ids[Len(ids)])

RECURSIVE SetAll(_, _, _)
SetAll(m, conversationId, ids) ==
    IF ids = <<>> THEN m
    ELSE SetAll(Set(m, conversationId, Head(ids)), conversationId, Tail(ids))

\* ----------------------------------------------------------------- actions

\* chatController.sendMessage, from the arrival of the request to the first
\* await: the validation, and for a valid body the call of the service, which
\* reads the ledger and invokes the provider.  A request arrives in a task
\* of its own, so no promise job is pending then.
SendMessage(r, body) ==
    /\ req[r].pc \in {"idle", "done"}
    /\ jobQueue = <<>>
    /\ LET parseResult == SafeParse(body)
       IN  IF ~parseResult.success
           THEN /\ req' = [req EXCEPT ![r] =
                        [IdleRequest EXCEPT !.pc = "done", !.body = body,
                                            !.res = ValidationResponse(parseResult)]]
                /\ UNCHANGED <<conversations, jobQueue, issued, lastSuccess, health>>
                /\ UNCHANGED <<surfaceVars, repo>>
           ELSE /\ issued < MaxCalls
                /\ issued' = issued + 1
                /\ req' = [req EXCEPT ![r] =
                        [IdleRequest EXCEPT
                            !.pc = "awaitProvider", !.body = body,
                            !.call = CreateCall(conversations,
                                        ControllerPrompt(body, parseResult),
                                        ControllerConversationId(body, parseResult),
                                        issued + 1)]]
                /\ UNCHANGED <<conversations, jobQueue, lastSuccess, health>>
                /\ UNCHANGED <<surfaceVars, repo>>

\* The provider promise of request r settles and chatService.sendMessage
\* runs on from its await: it writes the ledger and resolves, or rejects.
ProviderSettles(r, outcome) ==
    /\ req[r].pc = "awaitProvider"
    /\ outcome \in ProviderOutcomes(req[r].call.serial)
    /\ conversations' =
            SetAll(conversations, req[r].call.conversationId, ServiceWrites(outcome))
    /\ lastSuccess' =
            IF outcome.kind = "resolved"
            THEN [c \in DOMAIN lastSuccess \cup {req[r].call.conversationId} |->
                    IF c = req[r].call.conversationId
                    THEN outcome.id ELSE lastSuccess[c]]
            ELSE lastSuccess
    /\ req' = [req EXCEPT ![r].pc = "awaitService",
                          ![r].provider = outcome,
                          ![r].service = ServiceResult(outcome),
                          ![r].writes = @ \o ServiceWrites(outcome)]
    /\ jobQueue' = Append(jobQueue, r)
    /\ UNCHANGED <<issued, health>>
    /\ UNCHANGED <<surfaceVars, repo>>

\* chatController.sendMessage runs on from its await of the service, for the
\* request whose service promise settled first: it writes the ledger and
\* answers 200, or catches and answers 500.
ControllerResumes ==
    /\ jobQueue # <<>>
    /\ LET r == Head(jobQueue)
           service == req[r].service
       IN  /\ conversations' =
                SetAll(conversations, req[r].call.conversationId,
                       ControllerWrites(service))
           /\ req' = [req EXCEPT
                        ![r].pc = "done",
                        ![r].writes = @ \o ControllerWrites(service),
                        ![r].res = IF service.kind = "resolved"
                                   THEN MessageResponse(service)
                                   ELSE ErrorResponse(service.error)]
    /\ jobQueue' = Tail(jobQueue)
    /\ UNCHANGED <<issued, lastSuccess, health>>
    /\ UNCHANGED <<surfaceVars, repo>>

\* The statuses of the chat requests that were answered 400 or 500 and are
\* the last of their connection.
Failures ==
    { req[r].res.status :
        r \in { q \in Requests : req[q].pc = "done"
                                   /\ req[q].res.status \in {400, 500} } }

\* A health handler that restarts the conversations
HealthResetting ==
    /\ jobQueue = <<>>
    /\ health' = [res |-> HealthResponse(Failures), failures |-> Failures,
                  issued |-> issued]
    /\ conversations' = EmptyMap
    /\ UNCHANGED <<req, jobQueue, issued, lastSuccess>>
    /\ UNCHANGED <<surfaceVars, repo>>

\* healthRouter.get('/health'): the handler answers and touches nothing else.
\* Like every request it arrives in a task of its own.  The answer is kept
\* with the failures the chat route had answered and the provider calls it
\* had made by then.
Health ==
    /\ jobQueue = <<>>
    /\ health' = [res |-> HealthResponse(Failures), failures |-> Failures,
                  issued |-> issued]
    /\ UNCHANGED serverVars
    /\ UNCHANGED <<surfaceVars, repo>>

Next ==
    \/ \E r \in Requests, body \in Bodies : SendMessage(r, body)
    \/ \E r \in Requests :
         \E outcome \in ProviderOutcomes(req[r].call.serial) :
            ProviderSettles(r, outcome)
    \/ ControllerResumes

Spec == Init /\ [][Next]_vars

\* The router with both routes, /api/v1/chat and /api/v1/health.  The chat
\* requests are a valid one and an invalid one of the first conversation.
RouterBodies ==
    { [prompt |-> GoodPrompt, conversationId |-> JsString(Uuid1)],
      [prompt |-> JsString(<<Run(" ", 3)>>), conversationId |-> JsString(Uuid1)] }

RouterNext ==
    \/ \E r \in Requests, body \in RouterBodies : SendMessage(r, body)
    \/ \E r \in Requests :
         \E outcome \in ProviderOutcomes(req[r].call.serial) :
            ProviderSettles(r, outcome)
    \/ ControllerResumes
    \/ Health

RouterSpec == Init /\ [][RouterNext]_vars

\* The continuations are promise jobs: the event loop runs a pending one
\* before it takes anything else.
FairSpec == RouterSpec /\ WF_vars(ControllerResumes)

\* ------------------------------------------------------------ chat surface

\* What the user types into the textarea: nothing, blanks, a prompt
FieldValues == { <<>>, <<Run(" ", 3)>>, <<Run("A", 1)>> }

\* The textarea after the newline of shift+Enter
WithNewline(value) ==
    IF value # <<>> /\ value[Len(value)].ch = "\n"
    THEN [value EXCEPT ![Len(value)].n = @ + 1]
    ELSE Append(value, Run("\n", 1))

RECURSIVE Newlines(_)
Newlines(value) ==
    IF value = <<>> THEN 0
    ELSE (IF Head(value).ch = "\n" THEN Head(value).n ELSE 0) + Newlines(Tail(value))

\* A field without rules
FieldErrorsNone(value) == {}

\* register('prompt', { required: true,
\*                      validate: value => value.trim().length > 0 })
FieldErrors(value) ==
    IF StrLen(value) = 0 THEN {"required"}
    ELSE IF ~(StrLen(Trim(value)) > 0) THEN {"validate"}
    ELSE {}

\* crypto.randomUUID()
UuidPool == {Uuid1, Uuid2}

\* A ref that takes the initial value of every render
UseRefReinitialised(current, initialValue) == initialValue

\* useRef(initialValue): the initial value counts at the first render only
UseRef(current, initialValue) ==
    IF current = Undefined THEN initialValue ELSE current

\* ChatBot renders again after a state update: its body runs and useRef is
\* called with a new random UUID
Rendered(state, uuid) ==
    [state EXCEPT !.conversationId = UseRef(@, uuid)]

\* { role: 'user', content: prompt }
UserEntry(prompt) == [role |-> "user", content |-> JsString(prompt)]

\* An assistant entry that does not show the message
AssistantEntryBlank(data) == [role |-> "assistant", content |-> JsString(<<>>)]

\* { role: 'assistant', content: data.message }
AssistantEntry(data) == [role |-> "assistant", content |-> data.message]

SomethingWentWrong == "Something went wrong, try again later"

\* axios.post('/api/v1/chat', { prompt, conversationId: conversationId.current })
PostBody(prompt, current) ==
    [prompt |-> JsString(prompt), conversationId |-> JsString(current)]

ReplyText(i) == <<Run("r", i)>>
PostErrors == {"AxiosError: Request failed with status code 500"}

\* What the promise of the i-th axios.post can settle with: a 2xx answer with
\* or without a message, or a rejection
PostOutcomes(i) ==
    { [kind |-> "fulfilled", data |-> [message |-> JsString(ReplyText(i))]],
      [kind |-> "fulfilled", data |-> [message |-> JsUndefined]] }
    \cup { [kind |-> "rejected", error |-> e] : e \in PostErrors }

\* A failure that is shown as an empty answer of the assistant
MessagesAfterAlways(entries, outcome) ==
    IF outcome.kind = "fulfilled"
    THEN Append(entries, AssistantEntry(outcome.data))
    ELSE Append(entries, [role |-> "assistant", content |-> JsString(<<>>)])

\* A failure that takes the prompt of the user back out of the transcript
MessagesAfterRollback(entries, outcome) ==
    IF outcome.kind = "fulfilled"
    THEN Append(entries, AssistantEntry(outcome.data))
    ELSE SubSeq(entries, 1, Len(entries) - 1)

\* onSubmit after the await: setMessages(prev => [...prev, assistant entry])
\* in the try block, nothing in the catch block
MessagesAfter(entries, outcome) ==
    IF outcome.kind = "fulfilled"
    THEN Append(entries, AssistantEntry(outcome.data))
    ELSE entries

\* catch (error) { setError('Something went wrong, try again later') }
ErrorAfter(current, outcome) ==
    IF outcome.kind = "rejected" THEN SomethingWentWrong ELSE current

\* An indicator that is cleared at the end of the try block only
TypingAfterTryOnly(outcome) == outcome.kind = "rejected"

\* finally { setIsAssistantTyping(false) }
TypingAfter(outcome) == FALSE

\* handleSubmit waits for what its callback returns; the callback of
\* handleFormSubmit calls onSubmit(data) and returns nothing
CallbackReturnsPromise == FALSE

\* ChatBot renders for the first time.
Mount(uuid) ==
    /\ chatBot.conversationId = Undefined
    /\ chatBot' = Rendered(NoChatBot, uuid)
    /\ UNCHANGED <<form, posts, serverVars, health, repo>>

\* The user edits the textarea.  After a submission the field is validated
\* again on every change (reValidateMode: 'onChange').
Change(value) ==
    /\ chatBot.conversationId # Undefined
    /\ value # form.prompt
    /\ form' = [form EXCEPT !.prompt = value,
                            !.errors = IF form.isSubmitted
                                       THEN FieldErrors(value) ELSE @]
    /\ UNCHANGED <<chatBot, posts, serverVars, health, repo>>

\* handleFormSubmit(): handleSubmit validates the field; when it is valid the
\* callback resets the form and calls onSubmit, which runs to its await of
\* axios.post.  The promises in between are resolved ones, so no other event
\* comes in between.
HandleFormSubmit(uuid) ==
    LET data == form.prompt
        errors == FieldErrors(data)
    IN  IF errors # {}
        THEN /\ form' = [form EXCEPT !.isSubmitting = FALSE, !.isSubmitted = TRUE,
                                     !.errors = errors]
             /\ UNCHANGED <<chatBot, posts>>
        ELSE /\ Len(posts) < MaxPosts
             /\ form' = [prompt |-> <<>>, isSubmitting |-> CallbackReturnsPromise,
                         isSubmitted |-> TRUE, errors |-> {}]
             /\ chatBot' =
                  Rendered([chatBot EXCEPT
                               !.error = Null,
                               !.isAssistantTyping = TRUE,
                               !.messages = Append(@, UserEntry(data))], uuid)
             /\ posts' = Append(posts,
                            [body |-> PostBody(data, chatBot.conversationId),
                             settled |-> Pending,
                             userAt |-> Len(chatBot.messages) + 1])

\* handleKeyDown: Enter without shift submits; Enter with shift is left to
\* the textarea, which takes a newline (maxLength={1000}).
KeyDown(shiftKey, uuid) ==
    /\ chatBot.conversationId # Undefined
    /\ IF ~shiftKey
       THEN HandleFormSubmit(uuid)
       ELSE /\ StrLen(form.prompt) < PromptMax
            /\ Newlines(form.prompt) < MaxNewlines
            /\ form' = [form EXCEPT
                          !.prompt = WithNewline(@),
                          !.errors = IF form.isSubmitted
                                     THEN FieldErrors(WithNewline(form.prompt))
                                     ELSE @]
            /\ UNCHANGED <<chatBot, posts>>
    /\ UNCHANGED <<serverVars, health, repo>>

\* The submit button, which is disabled={formState.isSubmitting ||
\* !formState.isValid}: a click submits the form unless it is disabled.
Click(uuid) ==
    /\ chatBot.conversationId # Undefined
    /\ ~(form.isSubmitting \/ FieldErrors(form.prompt) # {})
    /\ HandleFormSubmit(uuid)
    /\ UNCHANGED <<serverVars, health, repo>>

\* The promise of the i-th axios.post settles and onSubmit runs on from its
\* await: try or catch, then finally.
PostSettles(i, outcome, uuid) ==
    /\ i \in 1..Len(posts)
    /\ posts[i].settled = Pending
    /\ outcome \in PostOutcomes(i)
    /\ posts' = [posts EXCEPT ![i].settled = outcome]
    /\ chatBot' =
         Rendered([chatBot EXCEPT
                      !.messages = MessagesAfter(@, outcome),
                      !.error = ErrorAfter(@, outcome),
                      !.isAssistantTyping = TypingAfter(outcome)], uuid)
    /\ form' = [form EXCEPT !.isSubmitting =
                                IF CallbackReturnsPromise THEN FALSE ELSE @]
    /\ UNCHANGED <<serverVars, health, repo>>

SurfaceNext ==
    \/ \E uuid \in UuidPool : Mount(uuid)
    \/ \E value \in FieldValues : Change(value)
    \/ \E shiftKey \in BOOLEAN, uuid \in UuidPool : KeyDown(shiftKey, uuid)
    \/ \E uuid \in UuidPool : Click(uuid)
    \/ \E i \in 1..MaxPosts, uuid \in UuidPool :
         \E outcome \in PostOutcomes(i) : PostSettles(i, outcome, uuid)

SurfaceSpec == Init /\ [][SurfaceNext]_vars

\* ---------------------------------------------------- repository on its own

\* conversationRepository.set(conversationId, responseId), called directly
RepositorySet(id, responseId) ==
    /\ Len(repo.sets[Uuid1]) + Len(repo.sets[Uuid2]) + Len(repo.sets[NotAUuid])
          < MaxSets
    /\ conversations' = Set(conversations, id, responseId)
    /\ repo' = [op |-> "set", id |-> id, result |-> Undefined,
                sets |-> [repo.sets EXCEPT ![id] = Append(@, responseId)]]
    /\ UNCHANGED <<req, jobQueue, issued, lastSuccess, health, surfaceVars>>

\* conversationRepository.get(conversationId), called directly
RepositoryGet(id) ==
    /\ repo' = [repo EXCEPT !.op = "get", !.id = id,
                            !.result = Get(conversations, id)]
    /\ UNCHANGED <<serverVars, health, surfaceVars>>

LedgerNext ==
    \/ \E id \in RepositoryKeys, responseId \in RepositoryValues :
          RepositorySet(id, responseId)
    \/ \E id \in RepositoryKeys : RepositoryGet(id)

LedgerSpec == Init /\ [][LedgerNext]_vars

TypeOK ==
    /\ \A r \in Requests :
          req[r].pc \in {"idle", "awaitProvider", "awaitService", "done"}
    /\ issued \in 0..MaxCalls


\* ------------------------------------------------------------------ claims

\* Request r starts in this step: a connection that carried no request, or
\* an answered one, carries a new request.
Started(r) ==
    /\ req[r].pc \in {"idle", "done"}
    /\ req'[r] # req[r]

\* The service of request r runs on from its await in this step.
ServiceResumed(r) == req[r].pc = "awaitProvider" /\ req'[r].pc = "awaitService"

\* The controller of request r runs on from its await in this step.
ControllerResumed(r) == req[r].pc = "awaitService" /\ req'[r].pc = "done"

PromptMissing(body) == body.prompt.t # "string"
PromptBlank(body) ==
    /\ body.prompt.t = "string"
    /\ \A i \in 1..Len(body.prompt.v) : IsWhitespace(body.prompt.v[i].ch)
ConversationIdMissing(body) == body.conversationId.t # "string"
ConversationIdMalformed(body) ==
    /\ body.conversationId.t = "string"
    /\ body.conversationId.v \notin {Uuid1, Uuid2}

\* C1: a request whose prompt is missing, empty or only whitespace, or whose
\* conversationId is missing or no valid UUID, is answered 400 with the issues
\* of the properties at fault; the provider is not invoked for it and the
\* ledger stays as it was.
C1_InvalidRequestRejected ==
    [][\A r \in Requests :
         (Started(r)
            /\ (PromptMissing(req'[r].body) \/ PromptBlank(req'[r].body)
                \/ ConversationIdMissing(req'[r].body)
                \/ ConversationIdMalformed(req'[r].body)))
         => /\ req'[r].pc = "done"
            /\ req'[r].res.status = 400
            /\ DOMAIN req'[r].res.body.properties =
                  (IF PromptMissing(req'[r].body) \/ PromptBlank(req'[r].body)
                   THEN {"prompt"} ELSE {})
                  \cup (IF ConversationIdMissing(req'[r].body)
                           \/ ConversationIdMalformed(req'[r].body)
                        THEN {"conversationId"} ELSE {})
            /\ \A f \in DOMAIN req'[r].res.body.properties :
                  req'[r].res.body.properties[f] # {}
            /\ ~req'[r].call.made
            /\ issued' = issued
            /\ conversations' = conversations]_vars

\* A whitespace-only prompt was answered 400 while the ledger held an entry.
C1_Witness ==
    \E r \in Requests :
        /\ req[r].pc = "done"
        /\ req[r].body.prompt = JsString(<<Run(" ", 3)>>)
        /\ req[r].res.status = 400
        /\ DOMAIN conversations # {}


PromptOf(body) == body.prompt.v

\* C2: a request whose prompt has more than 1000 characters is answered 400
\* without a provider call, and no provider call carries a prompt of more
\* than 1000 characters.
C2_NoLongPromptForwarded ==
    \A r \in Requests :
        /\ (req[r].pc # "idle" /\ req[r].body.prompt.t = "string"
              /\ StrLen(PromptOf(req[r].body)) > PromptMax)
           => (req[r].res.status = 400 /\ ~req[r].call.made)
        /\ req[r].call.made => StrLen(req[r].call.input) <= PromptMax

\* The request bodies that pass: a prompt of 1 to 1000 characters once
\* trimmed, and one of the two valid conversation ids.
ValidBody(body) ==
    /\ body.prompt.t = "string"
    /\ \E i \in 1..Len(PromptOf(body)) : ~IsWhitespace(PromptOf(body)[i].ch)
    /\ StrLen(Trim(PromptOf(body))) \in PromptMin..PromptMax
    /\ body.conversationId.t = "string"
    /\ body.conversationId.v \in {Uuid1, Uuid2}

WellFormed(outcome) ==
    /\ outcome.kind = "resolved"
    /\ outcome.id # Undefined
    /\ outcome.output_text # Undefined

\* C3: a valid request is handed to the provider, and when the provider
\* resolves with an id and an output_text, the answer is 200 with that
\* output_text as the message, and the ledger then maps the conversationId of
\* the request to that id.
C3_SuccessAnswered ==
    [][\A r \in Requests :
         /\ (Started(r) /\ ValidBody(req'[r].body))
            => (req'[r].pc = "awaitProvider" /\ req'[r].call.made)
         /\ (ControllerResumed(r) /\ ValidBody(req[r].body)
               /\ WellFormed(req[r].provider))
            => /\ req'[r].res = [status |-> 200,
                                 body |-> [message |-> req[r].provider.output_text]]
               /\ req[r].body.conversationId.v \in DOMAIN conversations'
               /\ conversations'[req[r].body.conversationId.v] = req[r].provider.id]_vars

\* The scenario of the spec: the first call of the test conversation resolved
\* and was answered.
C3_Witness ==
    \E r \in Requests :
        /\ req[r].pc = "done"
        /\ req[r].body.conversationId = JsString(Uuid1)
        /\ req[r].provider.kind = "resolved"
        /\ req[r].provider.id = ResponseId(1)
        /\ req[r].res = [status |-> 200, body |-> [message |-> OutputText(1)]]
        /\ Get(conversations, Uuid1) = ResponseId(1)

\* No other request for the conversation is between its provider call and
\* its answer.
Sequential(r, conversationId) ==
    \A q \in Requests \ {r} :
        ~(req[q].pc \in {"awaitProvider", "awaitService"}
            /\ req[q].call.conversationId = conversationId)

\* C4: a provider call for a conversation that has no ledger entry carries no
\* previous_response_id, whatever entries other conversations have; a call
\* made when no other request of the conversation is in flight carries the id
\* of the last response the provider resolved with for that conversation.
C4_Continuity ==
    [][\A r \in Requests :
         (Started(r) /\ req'[r].call.made)
         => LET c == req'[r].call.conversationId
            IN  /\ c \notin DOMAIN conversations
                   => req'[r].call.previous_response_id = Undefined
                /\ Sequential(r, c)
                   => req'[r].call.previous_response_id = Get(lastSuccess, c)]_vars

\* The third call: the second for its conversation, carrying the id of the
\* first, after a call for the other conversation.
C4_Witness ==
    \E r \in Requests :
        /\ req[r].pc = "awaitProvider"
        /\ req[r].call.serial = 3
        /\ req[r].call.previous_response_id = ResponseId(1)
        /\ DOMAIN conversations = {Uuid1, Uuid2}


\* C5: when the provider call of a request rejects, the service rejects with
\* the same error and writes nothing, the controller writes nothing and
\* answers 500 {error: 'Failed to generate a response'}, and neither step
\* changes the ledger.
C5_FailureLeavesLedger ==
    [][\A r \in Requests :
         /\ (ServiceResumed(r) /\ req'[r].provider.kind = "rejected")
            => /\ req'[r].service =
                    [kind |-> "rejected", error |-> req'[r].provider.error]
               /\ req'[r].writes = <<>>
               /\ conversations' = conversations
         /\ (ControllerResumed(r) /\ req[r].provider.kind = "rejected")
            => /\ req'[r].res =
                    [status |-> 500, body |-> [error |-> GenerationFailed]]
               /\ req'[r].writes = <<>>
               /\ conversations' = conversations]_vars

\* A request of a conversation that has a ledger entry was answered 500
\* after its provider call rejected, and the entry is still the first id.
C5_Witness ==
    \E r \in Requests :
        /\ req[r].pc = "done"
        /\ req[r].provider.kind = "rejected"
        /\ req[r].res.status = 500
        /\ req[r].call.serial = 2
        /\ req[r].call.previous_response_id = ResponseId(1)
        /\ Get(conversations, req[r].call.conversationId) = ResponseId(1)

Malformed(outcome) ==
    /\ outcome.kind = "resolved"
    /\ (outcome.id = Undefined \/ outcome.output_text = Undefined)

\* C6 as stated: a response without id or without output_text makes the
\* request fail: the service rejects and has written nothing, and the answer
\* is 500.
C6_MalformedFails ==
    \A r \in Requests :
        (req[r].pc \in {"awaitService", "done"} /\ Malformed(req[r].provider))
        => /\ req[r].service.kind = "rejected"
           /\ req[r].writes = <<>>
           /\ req[r].pc = "done" => req[r].res.status = 500

\* C6 amended: a response without id or without output_text is taken as a
\* success: the service resolves and sets the ledger entry of the conversation
\* to the id of the response (undefined when missing), and the controller
\* sets it again and answers 200 with the output_text (undefined when
\* missing) as the message.
C6_MalformedAccepted ==
    [][\A r \in Requests :
         /\ (ServiceResumed(r) /\ Malformed(req'[r].provider))
            => /\ req'[r].service.kind = "resolved"
               /\ conversations' =
                    Set(conversations, req[r].call.conversationId,
                        req'[r].provider.id)
         /\ (ControllerResumed(r) /\ Malformed(req[r].provider))
            => /\ req'[r].res.status = 200
               /\ req'[r].res.body.message = req[r].provider.output_text
               /\ conversations' =
                    Set(conversations, req[r].call.conversationId,
                        req[r].provider.id)]_vars

\* A response without id was answered 200 and left an entry without value
\* where the first id was.
C6_Witness ==
    \E r \in Requests :
        /\ req[r].pc = "done"
        /\ req[r].provider.kind = "resolved"
        /\ req[r].provider.id = Undefined
        /\ req[r].call.previous_response_id = ResponseId(1)
        /\ req[r].res.status = 200
        /\ req[r].call.conversationId \in DOMAIN conversations
        /\ conversations[req[r].call.conversationId] = Undefined

\* C7: when the provider resolves with an id and no output_text, the service
\* resolves with that id and an undefined message.
C7_MissingTextResolves ==
    \A r \in Requests :
        (req[r].pc \in {"awaitService", "done"}
           /\ req[r].provider.kind = "resolved"
           /\ req[r].provider.id # Undefined
           /\ req[r].provider.output_text = Undefined)
        => req[r].service =
              [kind |-> "resolved", id |-> req[r].provider.id,
               message |-> Undefined]

\* The service resumed on a response with an id and no output_text.
C7_Witness ==
    \E r \in Requests :
        /\ req[r].pc = "awaitService"
        /\ req[r].provider.kind = "resolved"
        /\ req[r].provider.id = ResponseId(1)
        /\ req[r].provider.output_text = Undefined
        /\ req[r].service.kind = "resolved"


\* Request r writes the ledger in this step.
Wrote(r) ==
    /\ ServiceResumed(r) \/ ControllerResumed(r)
    /\ Len(req'[r].writes) > Len(req[r].writes)

\* C8: the ledger changes only in a step in which a request of that
\* conversation writes it; a request writes only in a step after its provider
\* call resolved, one value per step, which is the id of the response of that
\* call and becomes the entry of its conversation.
C8_WriteAfterSuccess ==
    [][/\ \A c \in DOMAIN conversations' :
            (c \notin DOMAIN conversations \/ conversations'[c] # conversations[c])
            => \E r \in Requests : Wrote(r) /\ req[r].call.conversationId = c
       /\ \A r \in Requests :
            /\ req'[r].writes # <<>> => ServiceResumed(r) \/ ControllerResumed(r)
                                        \/ req'[r].writes = req[r].writes
            /\ Wrote(r)
               => /\ req'[r].provider.kind = "resolved"
                  /\ req'[r].writes = Append(req[r].writes, req'[r].provider.id)
                  /\ Get(conversations', req[r].call.conversationId)
                        = req'[r].provider.id
                  /\ req[r].call.conversationId \in DOMAIN conversations']_vars

\* The service of the first request has written the id of its response, the
\* controller has not yet.
C8_Witness ==
    \E r \in Requests :
        /\ req[r].pc = "awaitService"
        /\ req[r].writes = <<ResponseId(1)>>
        /\ conversations = Set(EmptyMap, req[r].call.conversationId, ResponseId(1))

\* C9 as stated: in every state the ledger has, for each conversation, the id
\* of the response of the provider call that resolved last for it.
C9_LedgerIsLastSuccess == conversations = lastSuccess

\* C9 amended: in every state in which no controller continuation is pending
\* (every state in which a request can arrive and read the ledger, and every
\* state in which all requests are answered) the ledger has, for each
\* conversation, the id of the response of the provider call that resolved
\* last for it.
C9_LedgerIsLastSuccessAtRest == jobQueue = <<>> => conversations = lastSuccess

\* Two requests of one conversation were in flight together and are both
\* answered 200; the entry is the id of the second response.
C9_Witness ==
    \E r, q \in Requests :
        /\ req[r].pc = "done" /\ req[q].pc = "done"
        /\ req[r].call.conversationId = req[q].call.conversationId
        /\ req[r].call.previous_response_id = req[q].call.previous_response_id
        /\ req[r].writes = <<ResponseId(1), ResponseId(1)>>
        /\ req[q].writes = <<ResponseId(2), ResponseId(2)>>
        /\ jobQueue = <<>>
        /\ conversations[req[r].call.conversationId] = ResponseId(2)

\* C10: whatever the service rejected with, the answer is 500 with the body
\* {error: 'Failed to generate a response'} and nothing else.
C10_OpaqueFailure ==
    [][\A r \in Requests :
         (ControllerResumed(r) /\ req[r].service.kind = "rejected")
         => req'[r].res = [status |-> 500, body |-> [error |-> GenerationFailed]]]_vars

\* Two requests failed on different errors, one of them no Error object, and
\* got the same answer.
C10_Witness ==
    \E r, q \in Requests :
        /\ req[r].pc = "done" /\ req[q].pc = "done"
        /\ req[r].body = req[q].body
        /\ req[r].provider = [kind |-> "rejected", error |-> "Unexpected string error"]
        /\ req[q].provider =
              [kind |-> "rejected", error |-> "TimeoutError: Request timeout"]
        /\ req[r].res = req[q].res
        /\ req[r].res.status = 500


\* C11 as stated: the input of every provider call is the trimmed prompt of
\* the request body.
C11_TrimmedPromptForwarded ==
    \A r \in Requests :
        req[r].call.made => req[r].call.input = Trim(PromptOf(req[r].body))

HealthOk == [status |-> 200, body |-> [status |-> "ok"]]

\* C12: every health check is answered 200 {status: 'ok'}, and the step of a
\* health check changes neither the ledger nor the number of provider calls
\* nor any chat request.
C12_HealthHasNoEffect ==
    /\ [](health.res \in {NoResponse, HealthOk})
    /\ [][health' # health
            => /\ health'.res = HealthOk
               /\ conversations' = conversations
               /\ issued' = issued
               /\ req' = req
               /\ jobQueue' = jobQueue]_vars

\* A health check was answered while the ledger had an entry and a chat
\* request was waiting for the provider, which are as they were.
C12_Witness ==
    /\ health.res = HealthOk
    /\ health.issued = issued
    /\ DOMAIN conversations # {}
    /\ \E r \in Requests : req[r].pc = "awaitProvider"

\* C13: a health check made when chat requests have been answered 400 or 500
\* is answered 200; a valid chat request that arrives then is handed to the
\* provider; and a chat request started after such a health check, whose
\* provider call resolves with id and output_text, is answered 200.
C13_FailureDoesNotDisable ==
    [][/\ (health' # health /\ Failures # {}) => health'.res.status = 200
       /\ \A r \in Requests :
            /\ (Started(r) /\ Failures # {} /\ ValidBody(req'[r].body))
               => (req'[r].pc = "awaitProvider" /\ req'[r].call.made)
            /\ (ControllerResumed(r) /\ WellFormed(req[r].provider)
                  /\ health.failures # {} /\ req[r].call.serial > health.issued)
               => req'[r].res.status = 200]_vars

\* The health check was answered 200 after a 400 and a 500, and a chat
\* request started after it was answered 200.
C13_Witness ==
    /\ health.failures = {400, 500}
    /\ health.res.status = 200
    /\ \E r \in Requests :
          /\ req[r].pc = "done"
          /\ req[r].call.serial > health.issued
          /\ req[r].res.status = 200


ConversationOf(r) == req[r].body.conversationId.v

\* C20: a step of a chat request changes no ledger entry but the one of its
\* own conversation; a request whose provider call resolved is answered with
\* the output_text of that call; and once it is answered, if its call is the
\* one that resolved last for its conversation, the entry of the conversation
\* is the id of its response, whatever requests of other conversations are
\* in flight or were answered meanwhile.
C20_NoInterference ==
    /\ [][\A r \in Requests :
            /\ (ServiceResumed(r) \/ ControllerResumed(r))
               => \A c \in (DOMAIN conversations \cup DOMAIN conversations')
                              \ {ConversationOf(r)} :
                     /\ c \in DOMAIN conversations
                     /\ c \in DOMAIN conversations'
                     /\ conversations'[c] = conversations[c]
            /\ (ControllerResumed(r) /\ req[r].provider.kind = "resolved")
               => req'[r].res.body = [message |-> req[r].provider.output_text]]_vars
    /\ [](\A r \in Requests :
            (req[r].pc = "done" /\ req[r].provider.kind = "resolved"
               /\ Get(lastSuccess, ConversationOf(r)) = req[r].provider.id)
            => /\ ConversationOf(r) \in DOMAIN conversations
               /\ conversations[ConversationOf(r)] = req[r].provider.id)

\* The first request, of one conversation, was in flight while the second,
\* of another conversation, was made, resolved and answered with its own
\* text; the service of the first has resumed since, and both entries are the
\* ids of the conversations' own calls.
C20_Witness ==
    \E r, q \in Requests :
        /\ req[r].pc = "awaitService" /\ req[q].pc = "done"
        /\ req[r].call.conversationId = Uuid1
        /\ req[q].call.conversationId = Uuid2
        /\ req[r].call.serial = 1 /\ req[q].call.serial = 2
        /\ req[r].provider.kind = "resolved"
        /\ req[r].provider.id = ResponseId(1)
        /\ req[q].res.body = [message |-> OutputText(2)]
        /\ conversations = Set(Set(EmptyMap, Uuid1, ResponseId(1)), Uuid2, ResponseId(2))


\* The relay requests of the surface that have not settled.
Outstanding == { i \in 1..Len(posts) : posts[i].settled = Pending }

\* The surface submits in this step: it makes a relay request.
Submitted == Len(posts') = Len(posts) + 1

\* The relay request i settles in this step.
Settled(i) ==
    /\ i \in 1..Len(posts)
    /\ posts[i].settled = Pending
    /\ posts'[i].settled # Pending

Blank(value) == \A k \in 1..Len(value) : IsWhitespace(value[k].ch)

UserEntries(entries) == SelectSeq(entries, LAMBDA m : m.role = "user")

\* C14 as stated: at most one relay request of the surface is outstanding.
C14_OneInFlight == Cardinality(Outstanding) <= 1

\* C15: with no relay request made the indicator is off; a submission turns
\* it on and leaves its request outstanding; when a request settles, fulfilled
\* or rejected, the indicator is off after the step; and it is off whenever
\* no request is outstanding.
C15_TypingCleared ==
    /\ [](Outstanding = {} => ~chatBot.isAssistantTyping)
    /\ [][/\ Submitted
             => /\ posts'[Len(posts')].settled = Pending
                /\ chatBot'.isAssistantTyping
          /\ \A i \in 1..Len(posts) :
                Settled(i)
                => /\ posts'[i].settled.kind \in {"fulfilled", "rejected"}
                   /\ ~chatBot'.isAssistantTyping]_vars

\* A submission failed and one succeeded, and the surface is idle again.
C15_Witness ==
    /\ Len(posts) = 2
    /\ posts[1].settled.kind = "rejected"
    /\ posts[2].settled.kind = "fulfilled"
    /\ ~chatBot.isAssistantTyping

\* C16: no relay request carries, and no user entry of the transcript has, a
\* prompt that is empty or only whitespace; and in a state whose input is
\* empty or only whitespace no step makes a relay request or appends a user
\* entry.
C16_BlankRejected ==
    /\ [](/\ \A i \in 1..Len(posts) : ~Blank(posts[i].body.prompt.v)
          /\ \A k \in 1..Len(chatBot.messages) :
                chatBot.messages[k].role = "user"
                => ~Blank(chatBot.messages[k].content.v))
    /\ [][Blank(form.prompt)
            => /\ Len(posts') = Len(posts)
               /\ UserEntries(chatBot'.messages) = UserEntries(chatBot.messages)]_vars

\* A whitespace-only input was submitted and rejected by the rule of the
\* field: nothing was requested, nothing appended.
C16_Witness ==
    /\ form.prompt = <<Run(" ", 3)>>
    /\ form.isSubmitted
    /\ form.errors = {"validate"}
    /\ posts = <<>>
    /\ chatBot.messages = <<>>

\* C17: the step that makes a relay request appends the user entry with the
\* submitted prompt, which is the prompt of the request, and leaves the
\* request outstanding; the step in which a request is fulfilled appends the
\* assistant entry with the message of the answer, behind the user entry of
\* its submission.
C17_EntriesInOrder ==
    [][/\ Submitted
          => /\ chatBot'.messages =
                   Append(chatBot.messages,
                          [role |-> "user", content |-> JsString(form.prompt)])
             /\ posts'[Len(posts')].body.prompt = JsString(form.prompt)
             /\ posts'[Len(posts')].settled = Pending
             /\ posts'[Len(posts')].userAt = Len(chatBot'.messages)
       /\ \A i \in 1..Len(posts) :
             (Settled(i) /\ posts'[i].settled.kind = "fulfilled")
             => /\ chatBot'.messages =
                      Append(chatBot.messages,
                             [role |-> "assistant",
                              content |-> posts'[i].settled.data.message])
                /\ posts[i].userAt <= Len(chatBot.messages)
                /\ chatBot'.messages[posts[i].userAt] =
                      [role |-> "user", content |-> posts[i].body.prompt]]_vars

\* The transcript of one answered submission.
C17_Witness ==
    /\ Len(posts) = 1
    /\ posts[1].settled.kind = "fulfilled"
    /\ chatBot.messages =
          << [role |-> "user", content |-> JsString(<<Run("A", 1)>>)],
             [role |-> "assistant", content |-> JsString(ReplyText(1))] >>

\* C18: every step leaves the transcript as a prefix of the new one; the step
\* in which a relay request is rejected leaves the transcript as it is, with
\* the user entry of the submission in it, and sets the error to the generic
\* message.
C18_AppendOnly ==
    [][/\ Len(chatBot'.messages) >= Len(chatBot.messages)
       /\ SubSeq(chatBot'.messages, 1, Len(chatBot.messages)) = chatBot.messages
       /\ \A i \in 1..Len(posts) :
             (Settled(i) /\ posts'[i].settled.kind = "rejected")
             => /\ chatBot'.messages = chatBot.messages
                /\ chatBot'.error = SomethingWentWrong
                /\ chatBot'.messages[posts[i].userAt] =
                      [role |-> "user", content |-> posts[i].body.prompt]]_vars

\* The only submission failed: its user entry is the transcript and the
\* error is shown.
C18_Witness ==
    /\ Len(posts) = 1
    /\ posts[1].settled.kind = "rejected"
    /\ chatBot.messages = << [role |-> "user", content |-> posts[1].body.prompt] >>
    /\ chatBot.error = SomethingWentWrong

\* C19: every relay request carries the conversation id of the surface, which
\* is a UUID; the id does not change once the surface has rendered; and the
\* request a submission makes carries the prompt of that submission.
C19_FixedConversationId ==
    /\ [](\A i \in 1..Len(posts) :
            /\ posts[i].body.conversationId = JsString(chatBot.conversationId)
            /\ IsUUID(posts[i].body.conversationId.v))
    /\ [][/\ chatBot.conversationId # Undefined
             => chatBot'.conversationId = chatBot.conversationId
          /\ Submitted
             => /\ posts'[Len(posts')].body.prompt = JsString(form.prompt)
                /\ SubSeq(posts', 1, Len(posts)) = posts]_vars

\* Three requests with two different prompts and one conversation id, after
\* the renders that the submissions and the answers caused.
C19_Witness ==
    /\ Len(posts) = 3
    /\ posts[1].body.prompt # posts[2].body.prompt
    /\ posts[1].body.conversationId = posts[3].body.conversationId
    /\ posts[2].body.conversationId = posts[3].body.conversationId
    /\ posts[1].settled # Pending


\* C21: a get returns the value of the last set of its id, and undefined when
\* the id was never set; a set makes its value the entry of its id and leaves
\* the entry of every other id, present or absent, as it was.
C21_LedgerIsMap ==
    /\ [](repo.op = "get"
            => repo.result = IF repo.sets[repo.id] = <<>> THEN Undefined
                             ELSE repo.sets[repo.id][Len(repo.sets[repo.id])])
    /\ [][repo'.op = "set" /\ repo'.sets # repo.sets
            => /\ Get(conversations', repo'.id)
                    = repo'.sets[repo'.id][Len(repo'.sets[repo'.id])]
               /\ \A k \in RepositoryKeys \ {repo'.id} :
                     /\ Get(conversations', k) = Get(conversations, k)
                     /\ k \in DOMAIN conversations' <=> k \in DOMAIN conversations]_vars

\* A get of an id that was set twice returned the second value, while another
\* id has its own value and a third was never set.
C21_Witness ==
    /\ repo.op = "get"
    /\ repo.id = Uuid1
    /\ repo.sets[Uuid1] = <<"resp_1", "resp_2">>
    /\ repo.sets[Uuid2] = <<"resp_1">>
    /\ repo.sets[NotAUuid] = <<>>
    /\ repo.result = "resp_2"


\* Requests r and q are of one conversation and both are answered after
\* their provider calls resolved.
BothSucceeded(r, q) ==
    /\ r # q
    /\ req[r].pc = "done" /\ req[q].pc = "done"
    /\ req[r].provider.kind = "resolved" /\ req[q].provider.kind = "resolved"
    /\ req[r].call.conversationId = req[q].call.conversationId

\* C22: when two requests of one conversation are both answered after their
\* provider calls resolved, and no other request of the conversation is in
\* flight, the entry of the conversation is the id of the response of the
\* call that resolved last.
C22_LastFinishedWins ==
    \A r, q \in Requests :
        (BothSucceeded(r, q)
           /\ \A p \in Requests :
                 req[p].call.conversationId = req[r].call.conversationId
                 => req[p].pc = "done")
        => Get(conversations, req[r].call.conversationId)
              = Get(lastSuccess, req[r].call.conversationId)

\* The second request was made while the first was in flight (it carries no
\* previous_response_id), the call of the first resolved last, and the entry
\* is the id of the first.
C22_Witness ==
    \E r, q \in Requests :
        /\ BothSucceeded(r, q)
        /\ req[r].call.serial = 1 /\ req[q].call.serial = 2
        /\ req[r].provider.id = ResponseId(1)
        /\ req[q].provider.id = ResponseId(2)
        /\ req[q].call.previous_response_id = Undefined
        /\ lastSuccess[req[r].call.conversationId] = ResponseId(1)
        /\ conversations[req[r].call.conversationId] = ResponseId(1)


\* C23: the step in which a request arrives invokes the provider once when
\* the body is valid and not at all when it is not; no later step of the
\* request, whether its call resolved or rejected, invokes the provider or
\* changes the call; so the provider is invoked only in steps in which a
\* valid request arrives, once.
C23_NoRetry ==
    [][/\ \A r \in Requests :
            /\ (Started(r) /\ ValidBody(req'[r].body))
               => /\ issued' = issued + 1
                  /\ req'[r].call.made
                  /\ req'[r].call.serial = issued'
            /\ (Started(r) /\ ~ValidBody(req'[r].body))
               => (issued' = issued /\ ~req'[r].call.made)
            /\ (ServiceResumed(r) \/ ControllerResumed(r))
               => (issued' = issued /\ req'[r].call = req[r].call)
       /\ issued' # issued
          => \E r \in Requests : Started(r) /\ ValidBody(req'[r].body)]_vars

\* Two provider calls rejected and one invalid request was made: the
\* provider was invoked twice, and the requests that failed are answered.
C23_Witness ==
    /\ issued = 2
    /\ \E r, q \in Requests :
          /\ req[r].pc = "done" /\ req[r].provider.kind = "rejected"
          /\ req[r].call.serial = 2 /\ req[r].res.status = 500
          /\ req[q].pc = "done" /\ req[q].res.status = 400


\* C24: a request has no answer while it is in flight and one answer, of
\* status 200, 400 or 500, once it is done; the answer is given in one step,
\* the arrival of an invalid body (400) or the continuation of the controller
\* (200 when the service resolved, 500 when it rejected, whatever it rejected
\* with), and is not changed afterwards; and the continuation of the
\* controller runs for every request whose service settled.
C24_AnsweredOnce ==
    /\ [](\A r \in Requests :
            /\ req[r].pc \in {"idle", "awaitProvider", "awaitService"}
               => req[r].res = NoResponse
            /\ req[r].pc = "done" => req[r].res.status \in {200, 400, 500})
    /\ [][\A r \in Requests :
            /\ (req'[r].res # req[r].res /\ req'[r].res # NoResponse)
               => \/ Started(r) /\ req'[r].pc = "done" /\ req'[r].res.status = 400
                  \/ /\ ControllerResumed(r)
                     /\ req[r].res = NoResponse
                     /\ req'[r].res.status =
                           IF req[r].service.kind = "resolved" THEN 200 ELSE 500
            /\ ControllerResumed(r) => req'[r].res # NoResponse
            /\ (req[r].pc = "done" /\ ~Started(r)) => req'[r].res = req[r].res]_vars
    /\ \A r \in Requests : (req[r].pc = "awaitService") ~> (req[r].pc = "done")

\* The provider resolved with null: the service threw on response.id, the
\* controller caught it and answered 500; the other request was answered 200.
C24_Witness ==
    \E r, q \in Requests :
        /\ req[r].pc = "done"
        /\ req[r].provider.kind = "null"
        /\ req[r].service = [kind |-> "rejected", error |-> TypeErrorOfNull]
        /\ req[r].res = [status |-> 500, body |-> [error |-> GenerationFailed]]
        /\ req[q].pc = "done"
        /\ req[q].res.status = 200


\* C25: no step removes a key of the ledger: the keys before a step are keys
\* after it.
C25_KeysOnlyGrow ==
    [][DOMAIN conversations \subseteq DOMAIN conversations']_vars

\* Both conversations have their entries after a third call, which failed.
C25_Witness ==
    /\ DOMAIN conversations = {Uuid1, Uuid2}
    /\ \E r \in Requests :
          /\ req[r].pc = "done"
          /\ req[r].call.serial = 3
          /\ req[r].res.status = 500


\* Request r waits for its provider call, which is for conversation c.
InFlight(r, c) ==
    /\ req[r].pc = "awaitProvider"
    /\ req[r].call.conversationId = c

\* C26 as stated: a request that starts while an earlier request of its
\* conversation is in flight carries the previous_response_id of that
\* earlier request.
C26_SameTokenAsEarlier ==
    [][\A q \in Requests :
         (Started(q) /\ req'[q].call.made)
         => \A r \in Requests \ {q} :
               InFlight(r, req'[q].call.conversationId)
               => req'[q].call.previous_response_id
                     = req[r].call.previous_response_id]_vars

\* C26 amended: the previous_response_id of a call is the ledger entry of
\* its conversation in the state in which the call is made, and no later
\* step of the request changes it; so a request that starts while an earlier
\* request of its conversation is in flight never carries the id of that
\* request's response, and carries the same previous_response_id as the
\* earlier request when the entry is still the one the earlier request read.
C26_TokenReadAtIssue ==
    [][\A q \in Requests :
         /\ (Started(q) /\ req'[q].call.made)
            => LET c == req'[q].call.conversationId
               IN  /\ req'[q].call.previous_response_id = Get(conversations, c)
                   /\ \A r \in Requests \ {q} :
                         InFlight(r, c)
                         => /\ req'[q].call.previous_response_id
                                 # ResponseId(req[r].call.serial)
                            /\ Get(conversations, c) = req[r].call.previous_response_id
                               => req'[q].call.previous_response_id
                                     = req[r].call.previous_response_id
         /\ (ServiceResumed(q) \/ ControllerResumed(q))
            => req'[q].call.previous_response_id
                  = req[q].call.previous_response_id]_vars

\* The second and the third call are of the conversation of the first and
\* are in flight together: both carry the id of the first response.
C26_Witness ==
    \E r, q \in Requests :
        /\ r # q
        /\ InFlight(r, Uuid1) /\ InFlight(q, Uuid1)
        /\ req[r].call.serial = 2 /\ req[q].call.serial = 3
        /\ req[r].call.previous_response_id = ResponseId(1)
        /\ req[q].call.previous_response_id = ResponseId(1)


\* C27: every provider call has an input whose trimmed length is between 1
\* and 1000 and a conversation id that is a UUID, and both are the prompt and
\* the conversationId of a request body that is valid.
C27_OnlyValidatedReachProvider ==
    \A r \in Requests :
        req[r].call.made
        => /\ StrLen(Trim(req[r].call.input)) \in PromptMin..PromptMax
           /\ IsUUID(req[r].call.conversationId)
           /\ ValidBody(req[r].body)
           /\ req[r].call.input = req[r].body.prompt.v
           /\ req[r].call.conversationId = req[r].body.conversationId.v

\* A provider call with the longest prompt that passes: 1000 characters once
\* trimmed.
C27_Witness ==
    \E r \in Requests :
        /\ req[r].call.made
        /\ StrLen(Trim(req[r].call.input)) = PromptMax
        /\ req[r].call.conversationId = Uuid1


\* C28: a request whose provider call resolved has written the ledger once
\* when its service has resumed and twice when it is answered, each time the
\* id of its response; and when the entry of its conversation is still that
\* id as the controller resumes, the write of the controller leaves the
\* ledger as it is.
C28_SecondWriteRepeats ==
    /\ [](\A r \in Requests :
            req[r].provider.kind = "resolved"
            => /\ req[r].pc = "awaitService"
                  => req[r].writes = <<req[r].provider.id>>
               /\ req[r].pc = "done"
                  => req[r].writes = <<req[r].provider.id, req[r].provider.id>>)
    /\ [][\A r \in Requests :
            (ControllerResumed(r) /\ req[r].provider.kind = "resolved"
               /\ req[r].call.conversationId \in DOMAIN conversations
               /\ conversations[req[r].call.conversationId] = req[r].provider.id)
            => conversations' = conversations]_vars

\* One request is answered and has written its id twice; the service of a
\* request of the other conversation has written once and its controller has
\* not run yet.
C28_Witness ==
    \E r, q \in Requests :
        /\ req[r].pc = "done" /\ req[q].pc = "awaitService"
        /\ req[r].call.serial = 1 /\ req[q].call.serial = 2
        /\ req[r].writes = <<ResponseId(1), ResponseId(1)>>
        /\ req[q].writes = <<ResponseId(2)>>
        /\ req[r].call.conversationId # req[q].call.conversationId
        /\ jobQueue = <<q>>


\* C29 as stated: the indicator is on in every state in which a relay
\* request of the surface is outstanding.
C29_TypingWhileOutstanding == Outstanding # {} => chatBot.isAssistantTyping

AssistantEntries(entries) == SelectSeq(entries, LAMBDA m : m.role = "assistant")

Fulfilled == { i \in 1..Len(posts) : posts[i].settled.kind = "fulfilled" }
Rejected == { i \in 1..Len(posts) : posts[i].settled.kind = "rejected" }

\* C30: the transcript has one user entry per submission and one assistant
\* entry per fulfilled request, so none for a rejected one, whose user entry
\* is in its place; and in every prefix of the transcript the assistant
\* entries are no more than the user entries, each answer being behind the
\* user entry of its submission.
C30_AnswersFollowPrompts ==
    /\ Len(UserEntries(chatBot.messages)) = Len(posts)
    /\ Len(AssistantEntries(chatBot.messages)) = Cardinality(Fulfilled)
    /\ \A k \in 0..Len(chatBot.messages) :
          Len(AssistantEntries(SubSeq(chatBot.messages, 1, k)))
             <= Len(UserEntries(SubSeq(chatBot.messages, 1, k)))
    /\ \A i \in 1..Len(posts) :
          /\ chatBot.messages[posts[i].userAt] =
                [role |-> "user", content |-> posts[i].body.prompt]
          /\ i \in Fulfilled
             => \E k \in (posts[i].userAt + 1)..Len(chatBot.messages) :
                   chatBot.messages[k] =
                      [role |-> "assistant",
                       content |-> posts[i].settled.data.message]

\* Three submissions, the second made before the first was answered and
\* failed: three user entries, two assistant entries.
C30_Witness ==
    /\ Len(posts) = 3
    /\ Rejected = {2}
    /\ Fulfilled = {1, 3}
    /\ Len(chatBot.messages) = 5
    /\ chatBot.messages[2].role = "user"
    /\ chatBot.messages[5].content = JsString(ReplyText(3))

====
